---- MODULE Spec2Model ----
(***************************************************************************)
(* A model of naukri_auto_update.py: one run of main(), the browser        *)
(* sessions it opens and quits, the profile edits of update_profile and    *)
(* the alert it issues.  Text is a sequence of one-character strings.      *)
(***************************************************************************)
EXTENDS Naturals, Integers, Sequences, FiniteSets, TLC

VARIABLES
    pc,         \* position of main() / update_profile()
    config,     \* what load_config() returns
    creds,      \* main()'s locals EMAIL and PASSWORD
    slept,      \* TRUE once time.sleep(random_delay) has run
    driver,     \* updater.driver: 0 is None, else an index into sessions
    sessions,   \* the browser sessions started so far: [backend, open]
    attempt,    \* 1 for the first browser attempt, 2 for the Firefox retry
    updated,    \* main()'s local `updated`
    tasks,      \* update_profile's shuffled task list, what is left of it
    edits,      \* the edits attempted so far, in order
    field,      \* the text field the browser's open editor shows
    upResults,  \* the return values of the update_profile calls, in order
    alerts,     \* the status of every send_alert call, in order
    emails,     \* the status of every email actually handed to SMTP
    exc,        \* TRUE while an exception is propagating out of main()
    trace,      \* the calls main() has made, in order, "raise" after one that raised
    hl_text,    \* the value of the headline textarea (repeated edits)
    hl_hist,    \* the values the headline textarea had before each edit
    fc,         \* one call of _find_clickable: its arguments, locals and result
    pv          \* one call of _pick_variant: its arguments and result

vars == <<pc, config, creds, slept, driver, sessions, attempt, updated, tasks, edits,
          field, upResults, alerts, emails, exc, trace, hl_text, hl_hist, fc, pv>>

-----------------------------------------------------------------------------
(* Bounds *)

\* longest text of a text field or of a variant
MaxLen == 2
\* how many times in a row the headline edit is applied in SpecHeadline
MaxApply == 2
\* longest selector list handed to _find_clickable
MaxSelectors == 2
\* most elements find_elements returns for one selector
MaxElements == 2
\* longest variant list, and longest text, handed to _pick_variant in SpecPick
MaxVariants == 2
MaxVariantLen == 2

-----------------------------------------------------------------------------
(* Text *)

NoneVal == "None"

\* the characters of the model: a letter, a space and a tab
Chars == {"a", " ", "\t"}
Whitespace == {" ", "\t"}

RECURSIVE TextsOfLen(_)
TextsOfLen(n) ==
    IF n = 0 THEN {<<>>}
    ELSE {Append(t, c) : t \in TextsOfLen(n - 1), c \in Chars}

Texts == UNION {TextsOfLen(n) : n \in 0..MaxLen}

\* str.rstrip()
RECURSIVE RStrip(_)
RStrip(t) ==
    IF t = <<>> THEN <<>>
    ELSE IF t[Len(t)] \in Whitespace THEN RStrip(SubSeq(t, 1, Len(t) - 1))
    ELSE t

\* str.lstrip()
RECURSIVE LStrip(_)
LStrip(t) ==
    IF t = <<>> THEN <<>>
    ELSE IF t[1] \in Whitespace THEN LStrip(Tail(t))
    ELSE t

\* str.strip()
Strip(t) == LStrip(RStrip(t))

\* str.endswith(' ')
EndsWithSpace(t) == t # <<>> /\ t[Len(t)] = " "


-----------------------------------------------------------------------------
(* Configuration *)

\* a variant of the configuration: a JSON string, or a value that is no string
StrV(t) == [isstr |-> TRUE, text |-> t]
NonStrV == [isstr |-> FALSE, text |-> <<>>]

\* the variant lists the configurations of the model carry
VariantChoices ==
    { <<>>,
      <<NonStrV, StrV(<<" ">>)>>,
      <<StrV(<<"a">>)>> }

\* the values of email / password: absent, empty, or set
CredValues == {NoneVal, "", "set"}

\* no config.json
NoConfig ==
    [present |-> FALSE, email |-> NoneVal, password |-> NoneVal,
     browser |-> NoneVal, fallback_browser |-> NoneVal,
     fallback_on_failure |-> TRUE, alert |-> FALSE,
     headline_variants |-> <<>>, summary_variants |-> <<>>]

Configs ==
    [present : {TRUE}, email : CredValues, password : CredValues,
     browser : {NoneVal, "chrome", "Firefox"},
     fallback_browser : {NoneVal, "chrome"},
     fallback_on_failure : BOOLEAN, alert : BOOLEAN,
     headline_variants : VariantChoices, summary_variants : VariantChoices]
    \cup {NoConfig}

\* str.lower() on the browser names of the model
Lower(s) ==
    CASE s = "Firefox" -> "firefox"
      [] s = "Chrome" -> "chrome"
      [] OTHER -> s

\* `not v` for a credential
Missing(v) == v = NoneVal \/ v = ""

\* the check with `and` for `or`
CredentialsMissing_Both(email, password) == Missing(email) /\ Missing(password)

\* main(): if not EMAIL or not PASSWORD
CredentialsMissing(email, password) == Missing(email) \/ Missing(password)

\* the default of randomize_minutes, and the seconds of a minute
RANDOMIZE_MINUTES == 15
SecondsPerMinute == 60

\* (config.get('browser') or 'chrome').lower()
Browser(c) ==
    IF c.present /\ c.browser # NoneVal THEN Lower(c.browser) ELSE "chrome"

\* (config.get('fallback_browser') or 'firefox').lower()
FallbackBrowser(c) ==
    IF c.present /\ c.fallback_browser # NoneVal
    THEN Lower(c.fallback_browser) ELSE "firefox"

\* config.get('fallback_on_failure', True)
FallbackOnFailure(c) == IF c.present THEN c.fallback_on_failure ELSE TRUE

\* the retry condition without `not updated`
ShouldRetry_IgnoreUpdated(upd, c) ==
    /\ Browser(c) = "chrome"
    /\ FallbackOnFailure(c)
    /\ FallbackBrowser(c) = "firefox"

\* main(): the condition of the Firefox retry
ShouldRetry(upd, c) ==
    /\ ~upd
    /\ Browser(c) = "chrome"
    /\ FallbackOnFailure(c)
    /\ FallbackBrowser(c) = "firefox"

\* the status chosen without looking at `updated`
AlertStatus_Success(upd) == "Success"

\* main(): the status of the alert after the attempts
AlertStatus(upd) == IF upd THEN "Success" ELSE "Failed"

\* setup_driver: the backend it starts, or "raise".  chromeOk / firefoxOk say
\* whether webdriver.Chrome(...) / webdriver.Firefox(...) would return.
SetupDriver(c, browser_override, allow_fallback, chromeOk, firefoxOk) ==
    LET browser == IF browser_override # NoneVal
                   THEN Lower(browser_override) ELSE Browser(c)
        firefox == IF firefoxOk THEN "firefox" ELSE "raise"
    IN  IF browser = "firefox" THEN firefox
        ELSE IF chromeOk THEN "chrome"
        ELSE IF allow_fallback /\ FallbackBrowser(c) = "firefox" THEN firefox
        ELSE "raise"

\* no text: what _pick_variant returns for None
NoText == [none |-> TRUE, text |-> <<>>]

\* _pick_variant without the candidates that differ from the current text
PickVariant_AnyVariant(current_text, variants) ==
    {Strip(variants[i].text) :
        i \in {j \in 1..Len(variants) :
                  /\ variants[j].isstr
                  /\ Strip(variants[j].text) # <<>>}}

\* _pick_variant: the values random.choice can return; {} when it returns None
PickVariant(current_text, variants) ==
    LET normalized == {Strip(variants[i].text) :
                          i \in {j \in 1..Len(variants) :
                                    /\ variants[j].isstr
                                    /\ Strip(variants[j].text) # <<>>}}
        current == Strip(current_text)
        candidates == normalized \ {current}
    IN  IF candidates # {} THEN candidates ELSE normalized

\* _pick_variant as a function of its arguments: None, or one of the texts
PickResults(current_text, variants) ==
    IF PickVariant(current_text, variants) = {} THEN {NoText}
    ELSE {[none |-> FALSE, text |-> t] : t \in PickVariant(current_text, variants)}

\* the edit that only ever adds a space
ToggleSpace_Append(current_text) == Append(current_text, " ")

\* update_resume_headline without a variant: add / remove a space at the end
ToggleSpace(current_text) ==
    IF EndsWithSpace(current_text) THEN RStrip(current_text)
    ELSE Append(current_text, " ")

\* update_resume_headline: the texts it can write for a current text
HeadlineNewTexts(current_text, variants) ==
    IF PickVariant(current_text, variants) = {}
    THEN {ToggleSpace(current_text)}
    ELSE PickVariant(current_text, variants)


-----------------------------------------------------------------------------
(* The outcomes of the steps that talk to the browser, the site and SMTP *)

\* WebDriver.quit(): returns, or raises with the session ended or still alive
QuitOutcomes == {"ok", "raise_closed", "raise_open"}

\* a close() that does not quit the driver
Close_NoQuit(ss, d, outcome) == ss

\* NaukriAutoUpdater.close(): the sessions after close() on driver d
Close(ss, d, outcome) ==
    IF d = 0 THEN ss
    ELSE [ss EXCEPT ![d].open = IF outcome = "raise_open" THEN @ ELSE FALSE]

\* no editor with a text field is open
NoField == [name |-> "none", current |-> <<>>, written |-> <<>>]

\* the editor is gone with the browser
FieldAfterClose(f, d, outcome) ==
    IF d = 0 \/ outcome = "raise_open" THEN f ELSE NoField

\* a close() that swallows the exception of driver.quit()
CloseRaises_Never(d, outcome) == FALSE

\* NaukriAutoUpdater.close() raises when driver.quit() does
CloseRaises(d, outcome) == d # 0 /\ outcome # "ok"

\* send_alert sends an email when the three alert settings are configured
AlertSent(c, smtpOk) == c.alert /\ smtpOk

\* send_alert raises when SMTP does
AlertRaises(c, smtpOk) == c.alert /\ ~smtpOk

\* what one edit did: its result, whether it set the text field and clicked
\* save, the text it read and the text it wrote
Outcome(result, set, saved, current, written) ==
    [result |-> result, set |-> set, saved |-> saved,
     current |-> current, written |-> written]

\* the text field once the edit `name` ran with outcome o
FieldAfter(name, o) ==
    IF o.set THEN [name |-> name, current |-> o.current, written |-> o.written]
    ELSE NoField

\* an edit that failed (or was skipped) before it read the text field
NoEdit == Outcome(FALSE, FALSE, FALSE, <<>>, <<>>)

\* update_resume_headline: it fails before reading the text, or it reads the
\* text, sets the new text and then finds and clicks save (ok) or fails to
HeadlineOutcomes(variants) ==
    {NoEdit}
    \cup UNION {{Outcome(ok, TRUE, ok, cur, new) :
                    ok \in BOOLEAN, new \in HeadlineNewTexts(cur, variants)} :
                cur \in Texts}

\* update_profile_summary: no variants, skip; else as the headline edit, but
\* it skips when _pick_variant returns None
SummaryOutcomes(variants) ==
    IF variants = <<>> THEN {NoEdit}
    ELSE {NoEdit}
         \cup UNION {IF PickVariant(cur, variants) = {}
                     THEN {Outcome(FALSE, FALSE, FALSE, cur, <<>>)}
                     ELSE {Outcome(ok, TRUE, ok, cur, new) :
                              ok \in BOOLEAN,
                              new \in PickVariant(cur, variants)} :
                     cur \in Texts}

\* update_key_skills: open the editor and click save, no text involved
KeySkillsOutcomes == {NoEdit, Outcome(TRUE, FALSE, TRUE, <<>>, <<>>)}

\* update_profile: the orders random.shuffle can leave the two tasks in
TaskOrders == {<<"headline", "summary">>, <<"summary", "headline">>}

\* the loop without its early return
AfterTask_Continue(result, rest) == IF rest = <<>> THEN "skills" ELSE "task"

\* update_profile: where the loop goes after a task returned `result`
AfterTask(result, rest) ==
    IF result THEN "return_true"
    ELSE IF rest = <<>> THEN "skills" ELSE "task"

-----------------------------------------------------------------------------
(* _find_clickable and _pick_variant, taken alone *)

\* no element: what a call holds before it returns one
NoElement == [sel |-> 0, el |-> 0]

\* _find_clickable has not been called
NoFind ==
    [pc |-> "idle", selectors |-> 0, clock |-> 0, end_time |-> 0,
     last_exc |-> FALSE, dom |-> <<>>, element |-> NoElement, raised |-> "none"]

\* _pick_variant has not been called
NoPick == [pc |-> "idle", current |-> <<>>, variants |-> <<>>, result |-> NoText]

-----------------------------------------------------------------------------
(* One run of main() *)

Init ==
    /\ pc = "start"
    /\ config \in Configs
    /\ creds = [email |-> NoneVal, password |-> NoneVal]
    /\ slept = FALSE
    /\ driver = 0
    /\ sessions = <<>>
    /\ attempt = 1
    /\ updated = FALSE
    /\ tasks = <<>>
    /\ edits = <<>>
    /\ field = NoField
    /\ upResults = <<>>
    /\ alerts = <<>>
    /\ emails = <<>>
    /\ exc = FALSE
    /\ trace = <<>>
    /\ hl_text = <<>>
    /\ hl_hist = <<>>
    /\ fc = NoFind
    /\ pv = NoPick

\* main(): read the credentials from the config, or from the environment when
\* there is no config, and return when one is missing
Main_Credentials ==
    /\ pc = "start"
    /\ \E envEmail \in CredValues, envPassword \in CredValues :
          LET email == IF config.present THEN config.email ELSE envEmail
              password == IF config.present THEN config.password ELSE envPassword
          IN  /\ creds' = [email |-> email, password |-> password]
              /\ pc' = IF CredentialsMissing(email, password)
                        THEN "returned" ELSE "delay"
    /\ UNCHANGED <<config, slept, driver, sessions, attempt, updated, tasks,
                   edits, upResults, alerts, emails, exc, trace, hl_text, hl_hist, fc, pv, field>>

\* main(): the random delay, then the updater is constructed
Main_Delay ==
    /\ pc = "delay"
    /\ \E random_delay \in 0..(RANDOMIZE_MINUTES * SecondsPerMinute) : slept' = TRUE
    /\ driver' = 0
    /\ pc' = "setup"
    /\ UNCHANGED <<config, creds, sessions, attempt, updated, tasks, edits, upResults,
                   alerts, emails, exc, trace, hl_text, hl_hist, fc, pv, field>>

\* the trace after a call that returned or raised
Called(name, raised) ==
    IF raised THEN trace \o <<name, "raise">> ELSE Append(trace, name)

\* a session of `backend` is started and becomes updater.driver
StartSession(backend) ==
    /\ sessions' = Append(sessions, [backend |-> backend, open |-> TRUE])
    /\ driver' = Len(sessions) + 1

\* main(): updated = False; updater.setup_driver()
Main_SetupDriver ==
    /\ pc = "setup"
    /\ updated' = FALSE
    /\ \E chromeOk \in BOOLEAN, firefoxOk \in BOOLEAN :
          LET backend == SetupDriver(config, NoneVal, TRUE, chromeOk, firefoxOk)
          IN  /\ trace' = Called("setup_driver", backend = "raise")
              /\ IF backend = "raise"
                 THEN pc' = "except" /\ UNCHANGED <<sessions, driver>>
                 ELSE pc' = "login" /\ StartSession(backend)
    /\ UNCHANGED <<config, creds, slept, attempt, tasks, edits, upResults, alerts,
                   emails, exc, hl_text, hl_hist, fc, pv, field>>

\* where main() goes on when an attempt is over without an update_profile call
AfterAttempt == IF attempt = 1 THEN "decide" ELSE "alert"

\* updater.login(): True, or False when anything raised
Login ==
    /\ pc = "login"
    /\ trace' = Append(trace, "login")
    /\ \E ok \in BOOLEAN : pc' = IF ok THEN "profile" ELSE AfterAttempt
    /\ UNCHANGED <<config, creds, slept, driver, sessions, attempt, updated, tasks,
                   edits, upResults, alerts, emails, exc, hl_text, hl_hist, fc, pv, field>>

\* update_profile returns r and main() assigns it to `updated`
ReturnFromProfile(r) ==
    /\ upResults' = Append(upResults, [attempt |-> attempt, result |-> r])
    /\ updated' = r
    /\ tasks' = <<>>
    /\ pc' = AfterAttempt

\* update_profile: open the profile page; return False on the login page, on a
\* captcha or on an exception, else shuffle the two tasks
UpdateProfile_Open ==
    /\ pc = "profile"
    /\ trace' = Append(trace, "update_profile")
    /\ \E page \in {"profile", "login_page", "captcha", "error"} :
          IF page = "profile"
          THEN /\ \E order \in TaskOrders : tasks' = order
               /\ pc' = "task"
               /\ UNCHANGED <<upResults, updated>>
          ELSE ReturnFromProfile(FALSE)
    /\ UNCHANGED <<config, creds, slept, driver, sessions, attempt, edits, alerts,
                   emails, exc, hl_text, hl_hist, fc, pv, field>>

\* update_profile: the edit `name` ran with outcome o
TaskDone(name, o) ==
    /\ edits' = Append(edits, [attempt |-> attempt, name |-> name,
                                result |-> o.result, set |-> o.set,
                                saved |-> o.saved])
    /\ field' = FieldAfter(name, o)
    /\ LET next == AfterTask(o.result, Tail(tasks))
       IN  IF next = "return_true"
           THEN ReturnFromProfile(TRUE)
           ELSE /\ tasks' = Tail(tasks)
                /\ pc' = next
                /\ UNCHANGED <<upResults, updated>>

\* update_profile: the next task is update_resume_headline
UpdateResumeHeadline ==
    /\ pc = "task"
    /\ tasks # <<>>
    /\ Head(tasks) = "headline"
    /\ \E o \in HeadlineOutcomes(config.headline_variants) : TaskDone("headline", o)
    /\ UNCHANGED <<config, creds, slept, driver, sessions, attempt, alerts, emails,
                   exc, trace, hl_text, hl_hist, fc, pv>>

\* update_profile: the next task is update_profile_summary
UpdateProfileSummary ==
    /\ pc = "task"
    /\ tasks # <<>>
    /\ Head(tasks) = "summary"
    /\ \E o \in SummaryOutcomes(config.summary_variants) : TaskDone("summary", o)
    /\ UNCHANGED <<config, creds, slept, driver, sessions, attempt, alerts, emails,
                   exc, trace, hl_text, hl_hist, fc, pv>>

\* update_profile: both tasks returned False, try update_key_skills
UpdateKeySkills ==
    /\ pc = "skills"
    /\ \E o \in KeySkillsOutcomes :
          /\ edits' = Append(edits, [attempt |-> attempt, name |-> "key_skills",
                                      result |-> o.result, set |-> o.set,
                                      saved |-> o.saved])
          /\ field' = NoField
          /\ ReturnFromProfile(o.result)
    /\ UNCHANGED <<config, creds, slept, driver, sessions, attempt, alerts, emails,
                   exc, trace, hl_text, hl_hist, fc, pv>>

\* main(): no retry, go on to the alert
Main_NoRetry ==
    /\ pc = "decide"
    /\ ~ShouldRetry(updated, config)
    /\ pc' = "alert"
    /\ UNCHANGED <<config, creds, slept, driver, sessions, attempt, updated, tasks,
                   edits, upResults, alerts, emails, exc, trace, hl_text, hl_hist, fc, pv, field>>

\* main(): the retry starts with updater.close()
Main_RetryClose ==
    /\ pc = "decide"
    /\ ShouldRetry(updated, config)
    /\ \E q \in QuitOutcomes :
          /\ trace' = Called("close", CloseRaises(driver, q))
          /\ sessions' = Close(sessions, driver, q)
          /\ field' = FieldAfterClose(field, driver, q)
          /\ pc' = IF CloseRaises(driver, q) THEN "except" ELSE "retry_setup"
    /\ UNCHANGED <<config, creds, slept, driver, attempt, updated, tasks, edits,
                   upResults, alerts, emails, exc, hl_text, hl_hist, fc, pv>>

\* main(): updater.setup_driver(browser_override='firefox', allow_fallback=False)
Main_RetrySetup ==
    /\ pc = "retry_setup"
    /\ \E chromeOk \in BOOLEAN, firefoxOk \in BOOLEAN :
          LET backend == SetupDriver(config, "firefox", FALSE, chromeOk, firefoxOk)
          IN  /\ trace' = Called("setup_driver", backend = "raise")
              /\ IF backend = "raise"
                 THEN pc' = "except" /\ UNCHANGED <<sessions, driver, attempt>>
                 ELSE pc' = "login" /\ attempt' = 2 /\ StartSession(backend)
    /\ UNCHANGED <<config, creds, slept, updated, tasks, edits, upResults, alerts,
                   emails, exc, hl_text, hl_hist, fc, pv, field>>

\* send_alert(status, ...): the call, the email when one is sent
SendAlert(status, smtpOk) ==
    /\ alerts' = Append(alerts, status)
    /\ emails' = IF AlertSent(config, smtpOk) THEN Append(emails, status) ELSE emails
    /\ trace' = Called("send_alert", AlertRaises(config, smtpOk))

\* main(): the Success / Failed alert that ends the try block
Main_Alert ==
    /\ pc = "alert"
    /\ \E smtpOk \in BOOLEAN :
          /\ SendAlert(AlertStatus(updated), smtpOk)
          /\ pc' = IF AlertRaises(config, smtpOk) THEN "except" ELSE "finally"
    /\ UNCHANGED <<config, creds, slept, driver, sessions, attempt, updated, tasks,
                   edits, upResults, exc, hl_text, hl_hist, fc, pv, field>>

\* main(): except Exception: send_alert("Error", ...); an exception raised by
\* the handler itself goes on propagating
Main_Except ==
    /\ pc = "except"
    /\ \E smtpOk \in BOOLEAN :
          /\ SendAlert("Error", smtpOk)
          /\ exc' = AlertRaises(config, smtpOk)
    /\ pc' = "finally"
    /\ UNCHANGED <<config, creds, slept, driver, sessions, attempt, updated, tasks,
                   edits, upResults, hl_text, hl_hist, fc, pv, field>>

\* main(): finally: updater.close(); main() returns unless an exception is
\* propagating or close() raises one
Main_Finally ==
    /\ pc = "finally"
    /\ \E q \in QuitOutcomes :
          /\ trace' = Called("close", CloseRaises(driver, q))
          /\ sessions' = Close(sessions, driver, q)
          /\ field' = FieldAfterClose(field, driver, q)
          /\ pc' = IF exc \/ CloseRaises(driver, q) THEN "raised" ELSE "returned"
    /\ UNCHANGED <<config, creds, slept, driver, attempt, updated, tasks, edits,
                   upResults, alerts, emails, exc, hl_text, hl_hist, fc, pv>>

Next ==
    \/ Main_Credentials
    \/ Main_Delay
    \/ Main_SetupDriver
    \/ Login
    \/ UpdateProfile_Open
    \/ UpdateResumeHeadline
    \/ UpdateProfileSummary
    \/ UpdateKeySkills
    \/ Main_NoRetry
    \/ Main_RetryClose
    \/ Main_RetrySetup
    \/ Main_Alert
    \/ Main_Except
    \/ Main_Finally

Spec == Init /\ [][Next]_vars

-----------------------------------------------------------------------------
(* The headline editor, edit after edit: the text one successful headline   *)
(* edit leaves is the text the next one reads.                              *)

\* the configurations that differ in the headline variants alone
HeadlineConfigs ==
    {[NoConfig EXCEPT !.present = TRUE, !.email = "set", !.password = "set",
                      !.headline_variants = v] : v \in VariantChoices}

InitHeadline ==
    /\ pc = "start"
    /\ config \in HeadlineConfigs
    /\ creds = [email |-> NoneVal, password |-> NoneVal]
    /\ slept = FALSE
    /\ driver = 0
    /\ sessions = <<>>
    /\ attempt = 1
    /\ updated = FALSE
    /\ tasks = <<>>
    /\ edits = <<>>
    /\ field = NoField
    /\ upResults = <<>>
    /\ alerts = <<>>
    /\ emails = <<>>
    /\ exc = FALSE
    /\ trace = <<>>
    /\ hl_text \in Texts
    /\ hl_hist = <<>>
    /\ fc = NoFind
    /\ pv = NoPick

\* update_resume_headline: read the text, set the new text, save
HeadlineEditAgain ==
    /\ Len(hl_hist) < MaxApply
    /\ \E new \in HeadlineNewTexts(hl_text, config.headline_variants) :
          hl_text' = new
    /\ hl_hist' = Append(hl_hist, hl_text)
    /\ UNCHANGED <<pc, config, creds, slept, driver, sessions, attempt, updated,
                   tasks, edits, field, upResults, alerts, emails, exc, trace,
                   fc, pv>>

NextHeadline == HeadlineEditAgain

SpecHeadline == InitHeadline /\ [][NextHeadline]_vars

-----------------------------------------------------------------------------
(* _find_clickable: time counts in polls of 0.2 s, the time.sleep of a pass *)

\* timeout=12, in seconds, and the polls of a second (time.sleep(0.2))
FindTimeout == 12
PollsPerSecond == 5

\* an element is displayed and enabled, is not, or is_displayed() /
\* is_enabled() raises on it (a stale element)
ElementStates == {"clickable", "unclickable", "stale"}

RECURSIVE ElementLists(_)
ElementLists(n) ==
    IF n = 0 THEN {<<>>}
    ELSE ElementLists(n - 1)
         \cup {Append(l, e) : l \in {m \in ElementLists(n - 1) : Len(m) = n - 1},
                              e \in ElementStates}

\* what find_elements does for one selector: it raises, or returns elements
Matches ==
    {[raises |-> TRUE, elements |-> <<>>]}
    \cup {[raises |-> FALSE, elements |-> l] : l \in ElementLists(MaxElements)}

\* the page during one pass: what each of the n selectors matches
Doms(n) == [1..n -> Matches]

\* the inner loop over the elements of one selector, from element j on: the
\* first clickable element, unless an element before it raises
RECURSIVE ScanElements(_, _)
ScanElements(elements, j) ==
    IF j > Len(elements) THEN [kind |-> "none", el |-> 0]
    ELSE IF elements[j] = "stale" THEN [kind |-> "raise", el |-> 0]
    ELSE IF elements[j] = "clickable" THEN [kind |-> "found", el |-> j]
    ELSE ScanElements(elements, j + 1)

\* the try block for one selector
ScanSelector(m) ==
    IF m.raises THEN [kind |-> "raise", el |-> 0]
    ELSE ScanElements(m.elements, 1)

\* the for loop over the selectors, from selector k on; raised says whether
\* an exception was caught so far
RECURSIVE ScanSelectors(_, _, _)
ScanSelectors(dom, k, raised) ==
    IF k > Len(dom) THEN [element |-> NoElement, raised |-> raised]
    ELSE LET r == ScanSelector(dom[k])
         IN  IF r.kind = "found"
             THEN [element |-> [sel |-> k, el |-> r.el], raised |-> raised]
             ELSE ScanSelectors(dom, k + 1, raised \/ r.kind = "raise")

InitFind ==
    /\ pc = "start"
    /\ config = NoConfig
    /\ creds = [email |-> NoneVal, password |-> NoneVal]
    /\ slept = FALSE
    /\ driver = 0
    /\ sessions = <<>>
    /\ attempt = 1
    /\ updated = FALSE
    /\ tasks = <<>>
    /\ edits = <<>>
    /\ field = NoField
    /\ upResults = <<>>
    /\ alerts = <<>>
    /\ emails = <<>>
    /\ exc = FALSE
    /\ trace = <<>>
    /\ hl_text = <<>>
    /\ hl_hist = <<>>
    /\ fc \in {[NoFind EXCEPT !.pc = "start", !.selectors = n] :
                 n \in 0..MaxSelectors}
    /\ pv = NoPick

\* _find_clickable: no selectors, ValueError; else end_time is set
FindClickable_Start ==
    /\ fc.pc = "start"
    /\ fc' = IF fc.selectors = 0
             THEN [fc EXCEPT !.pc = "raised", !.raised = "ValueError"]
             ELSE [fc EXCEPT !.pc = "loop",
                             !.end_time = fc.clock + FindTimeout * PollsPerSecond]
    /\ UNCHANGED <<pc, config, creds, slept, driver, sessions, attempt, updated,
                   tasks, edits, field, upResults, alerts, emails, exc, trace,
                   hl_text, hl_hist, pv>>

\* the pages on which a pass over n selectors finds no element
PagesWithout(n) ==
    {dom \in Doms(n) : ScanSelectors(dom, 1, FALSE).element = NoElement}

\* _find_clickable: one pass of the while loop over the page as it is then.
\* It returns an element (fc.dom keeps the page of that pass), or it finds
\* none, sleeps, and d polls of time have gone by.
FindClickable_Pass ==
    /\ fc.pc = "loop"
    /\ fc.clock < fc.end_time
    /\ \/ \E dom \in Doms(fc.selectors) \ PagesWithout(fc.selectors) :
             LET r == ScanSelectors(dom, 1, FALSE)
             IN  fc' = [fc EXCEPT !.pc = "returned", !.dom = dom,
                                  !.element = r.element,
                                  !.last_exc = fc.last_exc \/ r.raised]
       \/ \E raised \in {ScanSelectors(dom, 1, FALSE).raised :
                             dom \in PagesWithout(fc.selectors)},
             d \in 1..(FindTimeout * PollsPerSecond) :
             LET now == IF fc.clock + d < fc.end_time
                        THEN fc.clock + d ELSE fc.end_time
             IN  fc' = [fc EXCEPT !.clock = now,
                                  !.last_exc = fc.last_exc \/ raised]
    /\ UNCHANGED <<pc, config, creds, slept, driver, sessions, attempt, updated,
                   tasks, edits, field, upResults, alerts, emails, exc, trace,
                   hl_text, hl_hist, pv>>

\* _find_clickable: the time is up, raise last_exc or TimeoutException
FindClickable_Timeout ==
    /\ fc.pc = "loop"
    /\ fc.clock >= fc.end_time
    /\ fc' = [fc EXCEPT !.pc = "raised",
                        !.raised = IF fc.last_exc THEN "last_exc"
                                   ELSE "TimeoutException"]
    /\ UNCHANGED <<pc, config, creds, slept, driver, sessions, attempt, updated,
                   tasks, edits, field, upResults, alerts, emails, exc, trace,
                   hl_text, hl_hist, pv>>

NextFind ==
    \/ FindClickable_Start
    \/ FindClickable_Pass
    \/ FindClickable_Timeout

SpecFind == InitFind /\ [][NextFind]_vars

-----------------------------------------------------------------------------
(* _pick_variant on every current text and variant list of the bounds *)

\* the characters of these texts: a letter and a space
PickChars == {"a", " "}

RECURSIVE PickTextsOfLen(_)
PickTextsOfLen(n) ==
    IF n = 0 THEN {<<>>}
    ELSE {Append(t, c) : t \in PickTextsOfLen(n - 1), c \in PickChars}

PickTexts == UNION {PickTextsOfLen(n) : n \in 0..MaxVariantLen}

\* a variant: a string, or a value that is no string
PickVariants == {StrV(t) : t \in PickTexts} \cup {NonStrV}

RECURSIVE VariantListsOfLen(_)
VariantListsOfLen(n) ==
    IF n = 0 THEN {<<>>}
    ELSE {Append(l, v) : l \in VariantListsOfLen(n - 1), v \in PickVariants}

VariantLists == UNION {VariantListsOfLen(n) : n \in 0..MaxVariants}

InitPick ==
    /\ pc = "start"
    /\ config = NoConfig
    /\ creds = [email |-> NoneVal, password |-> NoneVal]
    /\ slept = FALSE
    /\ driver = 0
    /\ sessions = <<>>
    /\ attempt = 1
    /\ updated = FALSE
    /\ tasks = <<>>
    /\ edits = <<>>
    /\ field = NoField
    /\ upResults = <<>>
    /\ alerts = <<>>
    /\ emails = <<>>
    /\ exc = FALSE
    /\ trace = <<>>
    /\ hl_text = <<>>
    /\ hl_hist = <<>>
    /\ fc = NoFind
    /\ pv \in [pc : {"start"}, current : PickTexts, variants : VariantLists,
                result : {NoText}]

\* _pick_variant(current_text, variants) runs and returns
PickVariant_Call ==
    /\ pv.pc = "start"
    /\ \E r \in PickResults(pv.current, pv.variants) :
          pv' = [pv EXCEPT !.pc = "returned", !.result = r]
    /\ UNCHANGED <<pc, config, creds, slept, driver, sessions, attempt, updated,
                   tasks, edits, field, upResults, alerts, emails, exc, trace,
                   hl_text, hl_hist, fc>>

NextPick == PickVariant_Call

SpecPick == InitPick /\ [][NextPick]_vars

-----------------------------------------------------------------------------
(* Properties *)

Range(seq) == {seq[i] : i \in 1..Len(seq)}

\* the positions of the calls of `name` in the trace
Calls(name) == {i \in 1..Len(trace) : trace[i] = name}

\* some call of main() raised
StepRaised == "raise" \in Range(trace)

\* main() is over, by return or by an exception, after the credential check
RunOver == pc \in {"returned", "raised"} /\ slept

\* an update_profile call returned True
ProfileUpdated == \E k \in 1..Len(upResults) : upResults[k].result

\* C1: once the credential check is passed, no exception propagates out of
\* main(): main() never ends with an exception.
C1_NoExceptionEscapes == pc # "raised"

\* C2: when the email or the password is missing, main() returns at once:
\* no delay, no browser session, no login, no call at all, no alert.
C2_MissingCredentialsEndRun ==
    (/\ pc # "start"
     /\ \/ creds.email \in {NoneVal, ""}
        \/ creds.password \in {NoneVal, ""})
    => /\ pc = "returned"
       /\ ~slept
       /\ sessions = <<>>
       /\ driver = 0
       /\ trace = <<>>
       /\ alerts = <<>>
       /\ emails = <<>>

\* C2 witness: no config, NAUKRI_EMAIL set, NAUKRI_PASSWORD unset, main() returned
C2_Witness ==
    /\ pc = "returned"
    /\ ~config.present
    /\ creds.email = "set"
    /\ creds.password = NoneVal

C4_TearDownLast ==
    /\ RunOver =>
          /\ Calls("close") # {}
          /\ \A i \in 1..Len(trace) :
                trace[i] # "raise" =>
                   \E j \in Calls("close") : i <= j
          /\ \A i \in Calls("send_alert") :
                \E j \in Calls("close") : i < j
    /\ pc = "returned" => \A i \in 1..Len(sessions) : ~sessions[i].open

\* C4 witness: two sessions, the Failed alert raised, the Error alert went
\* out, close() ran and main() returned
C4_Witness ==
    /\ pc = "returned"
    /\ Len(sessions) = 2
    /\ alerts = <<"Failed", "Error">>

\* C5: at most one browser session is open at any time.
C5_AtMostOneSession ==
    Cardinality({i \in 1..Len(sessions) : sessions[i].open}) <= 1

\* C5 witness: the fallback session is open, the first one is not
C5_Witness ==
    /\ Len(sessions) = 2
    /\ sessions[2].open
    /\ ~sessions[1].open
    /\ pc = "login"

\* C6: the second session of a run runs on another backend than the first.
C6_RetryOnOtherBackend ==
    Len(sessions) = 2 => sessions[2].backend # sessions[1].backend

\* the edits of attempt a, in order
EditsOf(a) == SelectSeq(edits, LAMBDA e : e.attempt = a)

\* C7: in each update_profile call the first two edits are the headline and
\* the summary edit in either order, key skills comes third and only after
\* both returned False, an edit that returned True is the last one, and the
\* call returns True exactly when one of its edits returned True.
C7_FirstSuccessChain ==
    \A a \in {1, 2} :
       LET E == EditsOf(a)
       IN  /\ Len(E) <= 3
           /\ \A i \in 1..Len(E) :
                 /\ i <= 2 => E[i].name \in {"headline", "summary"}
                 /\ i = 3 => E[i].name = "key_skills"
                 /\ E[i].result => i = Len(E)
           /\ Len(E) >= 2 => E[1].name # E[2].name
           /\ Len(E) = 3 => ~E[1].result /\ ~E[2].result
           /\ \A k \in 1..Len(upResults) :
                 upResults[k].attempt = a =>
                    (upResults[k].result <=> \E i \in 1..Len(E) : E[i].result)

\* C7 witness: summary, then headline, then key skills, which succeeded
C7_Witness ==
    /\ Len(edits) = 3
    /\ edits[1].name = "summary"
    /\ edits[2].name = "headline"
    /\ edits[3].name = "key_skills"
    /\ edits[3].result
    /\ upResults = <<[attempt |-> 1, result |-> TRUE]>>

\* the value the headline had before edit i, or has now
HeadlineAt(i) == IF i <= Len(hl_hist) THEN hl_hist[i] ELSE hl_text

\* _pick_variant finds no variant: none is a non-blank string
NoUsableVariant(variants) ==
    \A i \in 1..Len(variants) :
       ~variants[i].isstr \/ Strip(variants[i].text) = <<>>

\* a text without trailing whitespace, or with one space after such a text
SingleTrailingSpaceAtMost(t) == t = RStrip(t) \/ t = Append(RStrip(t), " ")

\* C8 as stated: without variants every headline edit changes the text, and
\* only its trailing whitespace, and two edits in a row restore the text.
C8_ToggleRestores ==
    NoUsableVariant(config.headline_variants) =>
       /\ \A i \in 1..Len(hl_hist) :
             /\ HeadlineAt(i + 1) # HeadlineAt(i)
             /\ RStrip(HeadlineAt(i + 1)) = RStrip(HeadlineAt(i))
       /\ \A i \in 1..(Len(hl_hist) - 1) : HeadlineAt(i + 2) = HeadlineAt(i)

\* C8 amended: without variants every headline edit changes the text, and
\* only its trailing whitespace; two edits in a row restore the text exactly
\* when it had no trailing whitespace or a single trailing space.
C8_ToggleRestoresSingleSpace ==
    NoUsableVariant(config.headline_variants) =>
       /\ \A i \in 1..Len(hl_hist) :
             /\ HeadlineAt(i + 1) # HeadlineAt(i)
             /\ RStrip(HeadlineAt(i + 1)) = RStrip(HeadlineAt(i))
       /\ \A i \in 1..(Len(hl_hist) - 1) :
             HeadlineAt(i + 2) = HeadlineAt(i)
                <=> SingleTrailingSpaceAtMost(HeadlineAt(i))

\* C8 witness: "a " became "a" and then "a " again
C8_Witness ==
    /\ config.headline_variants = <<>>
    /\ hl_hist = << <<"a", " ">>, <<"a">> >>
    /\ hl_text = <<"a", " ">>

\* the Firefox retry was performed: setup_driver was called a second time
Retried == Cardinality(Calls("setup_driver")) = 2

\* the update_profile call of the first attempt returned True
FirstUpdated ==
    \E k \in 1..Len(upResults) :
       upResults[k].attempt = 1 /\ upResults[k].result

\* the configuration asks for the retry
RetryConfigured ==
    /\ Browser(config) = "chrome"
    /\ FallbackOnFailure(config)
    /\ FallbackBrowser(config) = "firefox"

\* a call of the first attempt raised: the first setup_driver, or the close()
\* that ends the first session
FirstAttemptRaised ==
    \E i \in 1..Len(trace) :
       /\ trace[i] = "raise"
       /\ \A j \in 1..(i - 1) : trace[j] # "send_alert"
       /\ Cardinality({j \in 1..(i - 1) : trace[j] = "setup_driver"}) = 1

\* at most two sessions, two setup_driver calls and two update_profile calls,
\* and a second session runs Firefox
RetryAtMostOnce ==
    /\ Cardinality(Calls("setup_driver")) <= 2
    /\ Cardinality(Calls("update_profile")) <= 2
    /\ Len(sessions) <= 2
    /\ Len(sessions) = 2 => sessions[2].backend = "firefox"

\* C9 as stated: the retry is performed exactly when the first attempt did
\* not update the profile and the configuration asks for it; at most once,
\* on Firefox.
C9_RetryIff ==
    /\ RetryAtMostOnce
    /\ RunOver => (Retried <=> (~FirstUpdated /\ RetryConfigured))

\* C9 amended: the retry is performed exactly when no call of the first
\* attempt raised, the first attempt did not update the profile and the
\* configuration asks for it; at most once, on Firefox.
C9_RetryIffNoRaise ==
    /\ RetryAtMostOnce
    /\ RunOver =>
          (Retried <=> (~FirstAttemptRaised /\ ~FirstUpdated /\ RetryConfigured))

\* C9 witness: a run that retried after a Chrome session
C9_Witness ==
    /\ RunOver
    /\ Retried
    /\ Len(sessions) = 2
    /\ sessions[1].backend = "chrome"
    /\ Cardinality(Calls("update_profile")) = 2

\* C10: update_profile_summary returns False without setting the text field
\* or clicking save when no summary variants are configured, and it sets the
\* text field only when a configured variant differs from the current text.
C10_SummarySkipsWhenNothingNew ==
    /\ \A i \in 1..Len(edits) :
          (edits[i].name = "summary" /\ config.summary_variants = <<>>) =>
             ~edits[i].result /\ ~edits[i].set /\ ~edits[i].saved
    /\ field.name = "summary" =>
          \E i \in 1..Len(config.summary_variants) :
             /\ config.summary_variants[i].isstr
             /\ config.summary_variants[i].text # field.current

\* the selector has a displayed and enabled element on the page of the pass
HasClickable(m) ==
    \E j \in 1..Len(m.elements) : m.elements[j] = "clickable"

\* C11: an element _find_clickable returns is displayed and enabled and
\* matches the earliest selector that had a displayed and enabled element in
\* that pass; with no selectors it raises ValueError; and when the time is up
\* it has raised without an element.
C11_PriorityHonoured ==
    /\ fc.pc = "returned" =>
          /\ fc.element # NoElement
          /\ fc.dom[fc.element.sel].elements[fc.element.el] = "clickable"
          /\ \A k \in 1..(fc.element.sel - 1) : ~HasClickable(fc.dom[k])
    /\ (fc.selectors = 0 /\ fc.pc \notin {"idle", "start"}) =>
          fc.pc = "raised" /\ fc.raised = "ValueError"
    /\ fc.pc = "raised" =>
          /\ fc.element = NoElement
          /\ fc.raised \in {"ValueError", "last_exc", "TimeoutException"}
          /\ fc.selectors > 0 => fc.clock >= fc.end_time

\* the variant is a string with a character that is no whitespace
NonBlank(v) ==
    v.isstr /\ \E i \in 1..Len(v.text) : v.text[i] \notin Whitespace

\* the non-blank variants of the call, stripped
StrippedVariants ==
    {Strip(pv.variants[i].text) :
        i \in {j \in 1..Len(pv.variants) : NonBlank(pv.variants[j])}}

\* C12: _pick_variant returns None exactly when no variant is a non-blank
\* string; otherwise it returns one of the stripped non-blank variants, and
\* one that differs from the stripped current text when some stripped
\* variant differs from it.
C12_PickVariant ==
    pv.pc = "returned" =>
       /\ pv.result.none <=> StrippedVariants = {}
       /\ ~pv.result.none =>
             /\ pv.result.text \in StrippedVariants
             /\ (\E t \in StrippedVariants : t # Strip(pv.current))
                   => pv.result.text # Strip(pv.current)

\* C12 witness: of "a " and "aa" with the current text " a", "aa" is returned
C12_Witness ==
    /\ pv.pc = "returned"
    /\ pv.current = <<" ", "a">>
    /\ pv.variants = <<StrV(<<"a", " ">>), StrV(<<"a", "a">>)>>
    /\ pv.result = [none |-> FALSE, text |-> <<"a", "a">>]

=============================================================================
